---- MODULE Spec2Model ----
(***************************************************************************)
(* Multi-hop graph-reasoning core of week05/multiJump:                     *)
(*   MultihopCoordinator (multihop_coordinator.py),                        *)
(*   KnowledgeGraphManager (kg_manager.py), Neo4jManager (graph_manager.py)*)
(*                                                                         *)
(* Conventions                                                             *)
(*   - A float confidence is kept in hundredths: 0.9 is 90, 0.15 is 15.    *)
(*   - ReasoningStep.confidence is a fraction [num, den] (den > 0) since   *)
(*     stage 3 reports a mean; a constant c is [num |-> c, den |-> 100].   *)
(*   - A Python call that may raise is an operator returning a record with *)
(*     a field raised; str(e) of the exception is the field exc.           *)
(*   - Chinese message texts are rendered in English.                      *)
(***************************************************************************)
EXTENDS Integers, Sequences, FiniteSets, TLC

VARIABLES
    graph,            \* content of the Neo4j store (never written by the pipeline)
    request,          \* the QueryRequest of the running process_query
    pc,               \* position inside process_query
    reasoning_steps,  \* process_query's local list reasoning_steps
    final_answer,     \* the dict returned by _generate_final_answer
    result,           \* the QueryResult returned by process_query
    llm_calls,        \* history: requests sent to the completion service
    graph_calls,      \* history: calls issued to the graph store
    stage_log,        \* history: stage methods entered, in order
    batch,            \* the list requests handed to batch_process_queries
    results,          \* batch_process_queries' local list results
    batch_pc,         \* position inside batch_process_queries
    batch_log,        \* history: what the collaborators did during each request
    loop_running,     \* whether the caller's thread already runs an event loop
    invoked,          \* the last call of a method outside process_query
    returned,         \* what that call returned or raised
    indexes,          \* the indexes of the Neo4j store
    tasks,            \* the locals of every concurrent process_query invocation
    threads,          \* FAQ service: position of every thread that updates the index
    indexing_lock,    \* FAQ service: the holder of FAQService._indexing_lock
    collection        \* FAQ service: whether the Milvus collection exists

process_vars == <<graph, request, pc, reasoning_steps, final_answer, result,
                  llm_calls, graph_calls, stage_log>>
batch_vars == <<batch, results, batch_pc, batch_log, loop_running>>
call_vars == <<invoked, returned, indexes>>
task_vars == <<tasks>>
faq_vars == <<threads, indexing_lock, collection>>
vars == <<process_vars, batch_vars, call_vars, task_vars, faq_vars>>

(***************************************************************************)
(* Bounds of the model                                                     *)
(***************************************************************************)
MaxTasks == 2         \* process_query invocations that run concurrently
MaxThreads == 2       \* FAQ service threads that update the index
MaxHopsReq == 3       \* requests carry max_hops in -1 .. MaxHopsReq
MaxSeconds == 1       \* a process_query run takes 0 .. MaxSeconds seconds

None == [none |-> TRUE]

Min(a, b) == IF a < b THEN a ELSE b
Max(a, b) == IF a > b THEN a ELSE b

Last(s) == s[Len(s)]

Range(s) == {s[i] : i \in 1..Len(s)}

\* s[:n] of Python
Take(s, n) == SubSeq(s, 1, Min(n, Len(s)))

\* dict.get(key, default)
DictGet(d, key, default) == IF key \in DOMAIN d THEN d[key] ELSE default

(***************************************************************************)
(* The property graph held by the store                                    *)
(***************************************************************************)
Node(id, name, labels) == [id |-> id, name |-> name, labels |-> labels]

Edge(from, to, type, properties) ==
    [from |-> from, to |-> to, type |-> type, properties |-> properties]

\* ORDER BY ... name: the collation of the names used below
NameRank(name) ==
    CASE name = "A" -> 1 [] name = "B" -> 2 [] name = "C" -> 3
      [] name = "D" -> 4 [] OTHER -> 5

\* a three-level SHAREHOLDER chain into company A, plus HOLDS edges
GraphChain ==
    [nodes |-> { Node("c1", "A", <<"Company">>), Node("c2", "B", <<"Company">>),
                 Node("p3", "C", <<"Person">>),  Node("p4", "D", <<"Person">>) },
     edges |-> { Edge("c2", "c1", "SHAREHOLDER", [percentage |-> 60]),
                 Edge("p3", "c2", "SHAREHOLDER",
                      [percentage |-> 20, control_type |-> "controlling"]),
                 Edge("p4", "p3", "SHAREHOLDER", [percentage |-> 30]),
                 Edge("p4", "c1", "HOLDS", [percentage |-> 8]) }]

\* the shape of load_sample_data: Shareholder nodes and HOLDS edges only
GraphSample ==
    [nodes |-> { Node("c1", "A", <<"Company">>), Node("c2", "B", <<"Company">>),
                 Node("p3", "C", <<"Shareholder">>), Node("p4", "D", <<"Shareholder">>) },
     edges |-> { Edge("p3", "c1", "HOLDS", [percentage |-> 20]),
                 Edge("p4", "c1", "HOLDS", [percentage |-> 8]),
                 Edge("p4", "c2", "HOLDS", [percentage |-> 25]) }]

\* minority holders only, one of them a node without labels
GraphMinor ==
    [nodes |-> { Node("c1", "A", <<"Company">>), Node("c2", "B", <<"Company">>),
                 Node("p3", "C", <<"Person">>),  Node("p4", "D", <<>>) },
     edges |-> { Edge("p3", "c1", "SHAREHOLDER", [percentage |-> 20]),
                 Edge("p4", "c1", "SHAREHOLDER", [percentage |-> 8]),
                 Edge("p4", "c2", "SHAREHOLDER", [control_type |-> "controlling"]),
                 Edge("c2", "p4", "HOLDS", [percentage |-> 70,
                                            control_type |-> "controlling"]) }]

Graphs == {GraphChain, GraphSample, GraphMinor}

NodeOf(g, id) == CHOOSE n \in g.nodes : n.id = id

(***************************************************************************)
(* Cypher variable-length patterns.  A path is [nodes, rels]: the node ids *)
(* visited from the start node and the edges crossed, no edge twice.       *)
(***************************************************************************)
\* the edges of g that continue path p; types = {} stands for "any type"
Continuations(g, p, types, inbound_only) ==
    { e \in g.edges :
        /\ types = {} \/ e.type \in types
        /\ e \notin Range(p.rels)
        /\ \/ e.to = Last(p.nodes)
           \/ ~inbound_only /\ e.from = Last(p.nodes) }

\* the far ends of e seen from node id at
OtherEnds(e, at, inbound_only) ==
    (IF e.to = at THEN {e.from} ELSE {}) \cup
    (IF ~inbound_only /\ e.from = at THEN {e.to} ELSE {})

ExtendPaths(g, paths, types, inbound_only) ==
    UNION { UNION { { [nodes |-> Append(p.nodes, n), rels |-> Append(p.rels, e)]
                      : n \in OtherEnds(e, Last(p.nodes), inbound_only) }
                    : e \in Continuations(g, p, types, inbound_only) }
            : p \in paths }

RECURSIVE PathsOfLength(_, _, _, _, _)
PathsOfLength(g, start, types, inbound_only, n) ==
    IF n = 0 THEN { [nodes |-> <<start>>, rels |-> <<>>] }
    ELSE ExtendPaths(g, PathsOfLength(g, start, types, inbound_only, n - 1),
                     types, inbound_only)

\* (start)-[:types*lo..hi]-(end), every start node in starts
VarLengthMatch(g, starts, types, inbound_only, lo, hi) ==
    UNION { UNION { PathsOfLength(g, s, types, inbound_only, n) : n \in lo..hi }
            : s \in starts }

\* ORDER BY key ASC (key a function on the rows): every order in which the
\* store may deliver the rows, ties broken either way
RECURSIVE OrderedBy(_, _)
OrderedBy(rows, key) ==
    IF rows = {} THEN { <<>> }
    ELSE LET least == { r \in rows : \A q \in rows : key[r] <= key[q] }
         IN  UNION { { <<r>> \o rest : rest \in OrderedBy(rows \ {r}, key) }
                     : r \in least }

(***************************************************************************)
(* One round trip to the store.  An outage is the store failing after it   *)
(* delivered `after` records (0: the session or the query itself failed).  *)
(***************************************************************************)
MaxDelivered == 1     \* an outage strikes after 0 .. MaxDelivered records

Outages ==
    { [fails |-> FALSE, after |-> 0] } \cup
    { [fails |-> TRUE, after |-> k] : k \in 0..MaxDelivered }

\* does the iteration over rows end in an exception under outage o
Interrupted(rows, o) == o.fails /\ o.after <= Len(rows)

\* the records read before the iteration ends
Delivered(rows, o) == IF Interrupted(rows, o) THEN Take(rows, o.after) ELSE rows

Raise(msg) == [raised |-> TRUE, exc |-> msg]
Return(v) == [raised |-> FALSE, value |-> v]

\* a range *1..max_hops with a negative bound is no Cypher: the query fails
BadRange(max_hops) == max_hops < 0

StartNodes(g, name, label) ==
    { n.id : n \in { m \in g.nodes :
                       m.name = name /\ (label = "" \/ label \in Range(m.labels)) } }

\* labels(node)[0] of Cypher: null for a node without labels
FirstLabel(n) == IF Len(n.labels) > 0 THEN n.labels[1] ELSE "None"

EmptyDict == [k \in {} |-> None]

Entity(id, name, type, properties) ==
    [id |-> id, name |-> name, type |-> type, properties |-> properties]

Relation(source, target, relation_type, properties) ==
    [source |-> source, target |-> target, relation_type |-> relation_type,
     properties |-> properties]

QueryPath(entities, relations, confidence, reasoning) ==
    [entities |-> entities, relations |-> relations, confidence |-> confidence,
     reasoning |-> reasoning]

(***************************************************************************)
(* KnowledgeGraphManager                                                   *)
(***************************************************************************)
RECURSIVE RelationBonus(_)
RelationBonus(relations) ==
    IF relations = <<>> THEN 0
    ELSE LET relation == Head(relations)
         IN  (IF DictGet(relation.properties, "percentage", 0) > 50 THEN 10
              ELSE IF DictGet(relation.properties, "control_type", "") = "controlling"
                   THEN 15
              ELSE 0) + RelationBonus(Tail(relations))

\* variant: the decay counts every hop, the first one included
calculate_path_confidence_DecayEveryHop(hops, relations) ==
    LET base_confidence == Max(10, 100 - hops * 20)
    IN  Min(100, base_confidence + RelationBonus(relations))

\* variant: the sum of base and bonuses is returned without the min(1.0, ..)
calculate_path_confidence_NoCeiling(hops, relations) ==
    LET base_confidence == Max(10, 100 - (hops - 1) * 20)
    IN  base_confidence + RelationBonus(relations)

calculate_path_confidence(hops, relations) ==
    LET base_confidence == Max(10, 100 - (hops - 1) * 20)
    IN  Min(100, base_confidence + RelationBonus(relations))

RECURSIVE Join(_, _)
Join(parts, sep) ==
    IF parts = <<>> THEN ""
    ELSE IF Len(parts) = 1 THEN parts[1]
    ELSE parts[1] \o sep \o Join(Tail(parts), sep)

\* the loop of _generate_reasoning from index i (1-based) on
RECURSIVE ReasoningParts(_, _, _)
ReasoningParts(entities, relations, i) ==
    IF i > Len(entities) - 1 THEN <<>>
    ELSE IF i <= Len(relations)
         THEN LET percentage == DictGet(relations[i].properties, "percentage", 0)
                  percentage_str == IF percentage # 0
                                    THEN "(" \o ToString(percentage) \o "%)" ELSE ""
              IN  << entities[i].name \o " -> " \o relations[i].relation_type \o " "
                     \o percentage_str \o " -> " \o entities[i + 1].name >>
                  \o ReasoningParts(entities, relations, i + 1)
         ELSE ReasoningParts(entities, relations, i + 1)

\* variant: the sentinel is returned only when both lists are empty
generate_reasoning_BothEmpty(entities, relations) ==
    IF entities = <<>> /\ relations = <<>> THEN "no reasoning path can be generated"
    ELSE Join(ReasoningParts(entities, relations, 1), " -> ")

generate_reasoning(entities, relations) ==
    IF entities = <<>> \/ relations = <<>> THEN "no reasoning path can be generated"
    ELSE Join(ReasoningParts(entities, relations, 1), " -> ")

\* the rows find_shareholders' query may return, in each possible order
ShareholderRows(g, company_name, max_hops) ==
    LET matches == VarLengthMatch(g, StartNodes(g, company_name, "Company"),
                                  {"SHAREHOLDER"}, TRUE, 1, max_hops)
        hops == [p \in matches |-> Len(p.rels)]
    IN  { Take(rows, 10) : rows \in OrderedBy(matches, hops) }

\* variant: the path is scored by the decay rule of the RELATIONSHIP branch
ShareholderPath_OtherDecay(g, row) ==
    LET entities == [i \in 1..Len(row.nodes) |->
                        LET e == NodeOf(g, row.nodes[i])
                        IN  Entity(e.id, e.name, FirstLabel(e), EmptyDict)]
        relations == [i \in 1..Len(row.rels) |->
                        Relation("", "", row.rels[i].type, row.rels[i].properties)]
    IN  QueryPath(entities, relations, Max(10, 100 - Len(row.rels) * 20),
                  generate_reasoning(entities, relations))

ShareholderPath(g, row) ==
    LET entities == [i \in 1..Len(row.nodes) |->
                        LET e == NodeOf(g, row.nodes[i])
                        IN  Entity(e.id, e.name, FirstLabel(e), EmptyDict)]
        relations == [i \in 1..Len(row.rels) |->
                        Relation("", "", row.rels[i].type, row.rels[i].properties)]
    IN  QueryPath(entities, relations,
                  calculate_path_confidence(Len(row.rels), relations),
                  generate_reasoning(entities, relations))

\* find_shareholders: rows is the order the store chose, o the outage met
find_shareholders(g, company_name, max_hops, rows, o) ==
    IF BadRange(max_hops) THEN Return(<<>>)
    ELSE LET got == Delivered(rows, o)
         IN  Return([i \in 1..Len(got) |-> ShareholderPath(g, got[i])])

\* ORDER BY r.percentage DESC LIMIT 1: a null percentage sorts first
ControllingRows(g, company_name) ==
    LET matches == { e \in g.edges :
                       /\ e.type = "SHAREHOLDER"
                       /\ e.to \in StartNodes(g, company_name, "Company")
                       /\ \/ /\ "percentage" \in DOMAIN e.properties
                             /\ e.properties.percentage > 50
                          \/ DictGet(e.properties, "control_type", "") = "controlling" }
        desc == [e \in matches |->
                    IF "percentage" \in DOMAIN e.properties
                    THEN 0 - e.properties.percentage ELSE 0 - 101]
    IN  { Take(rows, 1) : rows \in OrderedBy(matches, desc) }

\* variant: an empty result of the query is reported by raising
find_controlling_shareholder_RaisesOnNone(g, company_name, rows, o) ==
    IF Interrupted(rows, o) THEN Return(None)
    ELSE IF rows = <<>> THEN Raise("no controlling shareholder")
    ELSE LET relation == rows[1]
             shareholder == NodeOf(g, relation.from)
         IN  IF Len(shareholder.labels) = 0 THEN Return(None)
             ELSE Return(QueryPath(
                    << Entity(shareholder.id, shareholder.name, shareholder.labels[1],
                              [id |-> shareholder.id, name |-> shareholder.name]) >>,
                    << Relation(shareholder.id, company_name, "SHAREHOLDER",
                                relation.properties) >>,
                    IF DictGet(relation.properties, "percentage", 0) > 50 THEN 90 ELSE 70,
                    shareholder.name \o " holds " \o company_name \o " "
                      \o (IF "percentage" \in DOMAIN relation.properties
                          THEN ToString(relation.properties.percentage) ELSE "N/A")
                      \o "% of the shares"))

find_controlling_shareholder(g, company_name, rows, o) ==
    IF Interrupted(rows, o) \/ rows = <<>> THEN Return(None)
    ELSE LET relation == rows[1]
             shareholder == NodeOf(g, relation.from)
         IN  IF Len(shareholder.labels) = 0 THEN Return(None)  \* IndexError, caught
             ELSE Return(QueryPath(
                    << Entity(shareholder.id, shareholder.name, shareholder.labels[1],
                              [id |-> shareholder.id, name |-> shareholder.name]) >>,
                    << Relation(shareholder.id, company_name, "SHAREHOLDER",
                                relation.properties) >>,
                    IF DictGet(relation.properties, "percentage", 0) > 50 THEN 90 ELSE 70,
                    shareholder.name \o " holds " \o company_name \o " "
                      \o (IF "percentage" \in DOMAIN relation.properties
                          THEN ToString(relation.properties.percentage) ELSE "N/A")
                      \o "% of the shares"))

(***************************************************************************)
(* Neo4jManager                                                            *)
(***************************************************************************)
MultiHopRows(g, start_entity, relationship_type, max_hops) ==
    LET matches == VarLengthMatch(g, StartNodes(g, start_entity, ""),
                                  {relationship_type}, FALSE, 1, max_hops)
        hop_count == [p \in matches |-> Len(p.rels)]
    IN  { Take(rows, 10) : rows \in OrderedBy(matches, hop_count) }

find_multi_hop_relationships(g, max_hops, rows, o) ==
    IF BadRange(max_hops) THEN Raise("CypherSyntaxError")
    ELSE IF Interrupted(rows, o) THEN Raise("ServiceUnavailable")
    ELSE Return([i \in 1..Len(rows) |->
                   [nodes |-> [j \in 1..Len(rows[i].nodes) |->
                                  LET n == NodeOf(g, rows[i].nodes[j])
                                  IN  [id |-> n.id, name |-> n.name, labels |-> n.labels]],
                    relationships |-> [j \in 1..Len(rows[i].rels) |->
                                  [type |-> rows[i].rels[j].type,
                                   properties |-> rows[i].rels[j].properties]],
                    hop_count |-> Len(rows[i].rels)]])

\* the pattern is fixed to *1..2 in the query text; max_depth is not used
NeighborRows(g, entity_name, max_depth) ==
    LET matches == VarLengthMatch(g, StartNodes(g, entity_name, ""), {}, FALSE, 1, 2)
        distinct == { [name |-> NodeOf(g, Last(p.nodes)).name,
                       labels |-> NodeOf(g, Last(p.nodes)).labels,
                       relationship_type |-> p.rels[1].type,
                       distance |-> Len(p.rels)] : p \in matches }
        order == [r \in distinct |-> 10 * r.distance + NameRank(r.name)]
    IN  { Take(rows, 20) : rows \in OrderedBy(distinct, order) }

get_entity_neighbors(entity_name, rows, o) ==
    IF Interrupted(rows, o) THEN Raise("ServiceUnavailable")
    ELSE Return([entity |-> entity_name, neighbors |-> rows])

(***************************************************************************)
(* Text exchanged with the completion service.  A text is either not JSON  *)
(* at all or the serialisation of a JSON value; a JSON object is a         *)
(* function from keys to values, its confidence a tagged scalar.           *)
(***************************************************************************)
Num(v) == [t |-> "num", v |-> v, s |-> ""]
Str(s) == [t |-> "str", v |-> 0, s |-> s]

Malformed == [fmt |-> "malformed", val |-> None]

json_dumps(d) == [fmt |-> "json", val |-> [t |-> "dict", d |-> d]]

JsonList == [fmt |-> "json", val |-> [t |-> "list", d |-> EmptyDict]]

json_loads(text) ==
    IF text.fmt = "json" THEN Return(text.val) ELSE Raise("JSONDecodeError")

\* float(x)
ToFloat(x) ==
    IF x.t = "num" THEN Return(x.v)
    ELSE Raise("could not convert to float")

\* what the completion service may do with one request
LlmOutcomes ==
    { [kind |-> "error", text |-> Malformed],        \* transport or service error
      [kind |-> "no_content", text |-> Malformed],   \* a choice whose content is None
      [kind |-> "content", text |-> Malformed],
      [kind |-> "content", text |-> JsonList],
      [kind |-> "content",
       text |-> json_dumps([query_type |-> "control_chain", entity |-> "B"])],
      [kind |-> "content",
       text |-> json_dumps([answer |-> "C is the largest shareholder",
                            confidence |-> Num(90), explanation |-> "one hop"])],
      [kind |-> "content",
       text |-> json_dumps([answer |-> "", confidence |-> Num(150)])],
      [kind |-> "content",
       text |-> json_dumps([answer |-> "probably C", confidence |-> Str("high")])],
      [kind |-> "content", text |-> json_dumps([confidence |-> Num(60)])] }

(***************************************************************************)
(* MultihopCoordinator                                                     *)
(***************************************************************************)
QueryType == {"shareholder", "control_chain", "relationship", "entity_info"}

\* a member added to the enum for which _execute_graph_query has no branch
FifthType == "fifth"

QueryRequest(query, query_type, entity, max_hops) ==
    [query |-> query, query_type |-> query_type, entity |-> entity,
     max_hops |-> max_hops]

Requests ==
    { QueryRequest("who holds it", qt, e, h) :
        qt \in QueryType \cup {FifthType}, e \in {"A", "B"}, h \in (0 - 1)..MaxHopsReq }

Frac(n, d) == [num |-> n, den |-> d]

ReasoningStep(step_id, description, data_source, res, confidence) ==
    [step_id |-> step_id, description |-> description, data_source |-> data_source,
     result |-> res, confidence |-> confidence]

\* variant: on an error the message of the exception is returned as it is
call_llm_PlainMessage(outcome) ==
    IF outcome.kind = "content" THEN outcome.text ELSE Malformed

\* _call_llm: the text returned for a service outcome; it never raises
call_llm(outcome) ==
    IF outcome.kind = "content" THEN outcome.text
    ELSE json_dumps([error |-> "LLM call failed: " \o outcome.kind,
                     answer |-> "the system cannot handle this query for now",
                     confidence |-> Num(0),
                     explanation |-> "LLM service unavailable"])

IntentFailed(exc) ==
    ReasoningStep(1, "intent identification failed: " \o exc, "llm",
                  EmptyDict, Frac(0, 100))

identify_query_intent(req, outcome) ==
    LET response == call_llm(outcome)
        parsed == json_loads(response)
    IN  IF parsed.raised THEN IntentFailed(parsed.exc)
        ELSE IF parsed.value.t # "dict"
             THEN IntentFailed("'list' object has no attribute 'get'")
        ELSE LET intent_result == parsed.value.d
             IN  ReasoningStep(1,
                    "intent: " \o DictGet(intent_result, "query_type", "unknown"),
                    "llm", intent_result, Frac(80, 100))

NoCall == [op |-> "none", entity |-> "", hops |-> 0]

\* variant: the entity named by the stage-1 intent replaces the request's
Dispatch_FollowsIntent(req) ==
    LET entity == DictGet(reasoning_steps[1].result, "entity", req.entity)
    IN  CASE req.query_type = "shareholder" ->
                [op |-> "find_shareholders", entity |-> entity, hops |-> req.max_hops]
          [] req.query_type = "control_chain" ->
                [op |-> "find_controlling_shareholder", entity |-> entity, hops |-> 0]
          [] req.query_type = "relationship" ->
                [op |-> "find_multi_hop_relationships", entity |-> entity,
                 hops |-> req.max_hops]
          [] req.query_type = "entity_info" ->
                [op |-> "get_entity_neighbors", entity |-> entity, hops |-> 2]
          [] OTHER -> NoCall

\* the adapter call the if/elif chain of _execute_graph_query selects
Dispatch(req) ==
    CASE req.query_type = "shareholder" ->
            [op |-> "find_shareholders", entity |-> req.entity, hops |-> req.max_hops]
      [] req.query_type = "control_chain" ->
            [op |-> "find_controlling_shareholder", entity |-> req.entity, hops |-> 0]
      [] req.query_type = "relationship" ->
            [op |-> "find_multi_hop_relationships", entity |-> req.entity,
             hops |-> req.max_hops]
      [] req.query_type = "entity_info" ->
            [op |-> "get_entity_neighbors", entity |-> req.entity, hops |-> 2]
      [] OTHER -> NoCall

\* the rows the query of a call may return, in each possible order
StoreRows(g, call) ==
    CASE call.op = "find_shareholders" -> ShareholderRows(g, call.entity, call.hops)
      [] call.op = "find_controlling_shareholder" -> ControllingRows(g, call.entity)
      [] call.op = "find_multi_hop_relationships" ->
            MultiHopRows(g, call.entity, "HOLDS", call.hops)
      [] call.op = "get_entity_neighbors" -> NeighborRows(g, call.entity, call.hops)
      [] OTHER -> { <<>> }

\* the adapter operation called, as a raised/value record
AdapterCall(g, call, rows, o) ==
    CASE call.op = "find_shareholders" ->
            find_shareholders(g, call.entity, call.hops, rows, o)
      [] call.op = "find_controlling_shareholder" ->
            find_controlling_shareholder(g, call.entity, rows, o)
      [] call.op = "find_multi_hop_relationships" ->
            find_multi_hop_relationships(g, call.hops, rows, o)
      [] call.op = "get_entity_neighbors" ->
            get_entity_neighbors(call.entity, rows, o)
      [] OTHER -> Return(<<>>)

\* the RELATIONSHIP branch's conversion of one result into a QueryPath
RelationshipPath(res) ==
    QueryPath([i \in 1..Len(res.nodes) |->
                  Entity(res.nodes[i].id, res.nodes[i].name,
                         res.nodes[i].labels[1], EmptyDict)],
              [i \in 1..Len(res.relationships) |->
                  Relation("", "", res.relationships[i].type,
                           res.relationships[i].properties)],
              Max(10, 100 - res.hop_count * 20),
              "multi-hop path, hops: " \o ToString(res.hop_count))

\* the ENTITY_INFO branch's single path over the first five neighbours
NeighborPath(req, neighbors) ==
    LET shown == Take(neighbors, 5)
    IN  QueryPath(<< Entity(req.entity, req.entity, "Entity", EmptyDict) >> \o
                  [i \in 1..Len(shown) |->
                      Entity(shown[i].name, shown[i].name,
                             IF Len(shown[i].labels) > 0 THEN shown[i].labels[1]
                             ELSE "Unknown",
                             [distance |-> shown[i].distance])],
                  <<>>, 70, "neighbours of entity " \o req.entity)

\* variant: the except branch numbers its step 3
GraphFailed_WrongId(exc) ==
    ReasoningStep(3, "graph query failed: " \o exc, "graph",
                  [paths |-> <<>>], Frac(0, 100))

GraphFailed(exc) ==
    ReasoningStep(2, "graph query failed: " \o exc, "graph",
                  [paths |-> <<>>], Frac(0, 100))

GraphStep(paths) ==
    ReasoningStep(2, "graph query done, found " \o ToString(Len(paths)) \o " paths",
                  "graph", [paths |-> paths],
                  IF paths # <<>> THEN Frac(90, 100) ELSE Frac(10, 100))

execute_graph_query(g, req, rows, o) ==
    LET call == Dispatch(req)
        got == AdapterCall(g, call, rows, o)
    IN  IF got.raised THEN GraphFailed(got.exc)
        ELSE CASE call.op = "find_shareholders" -> GraphStep(got.value)
               [] call.op = "find_controlling_shareholder" ->
                    GraphStep(IF got.value # None THEN << got.value >> ELSE <<>>)
               [] call.op = "find_multi_hop_relationships" ->
                    IF \E i \in 1..Len(got.value) :
                          \E j \in 1..Len(got.value[i].nodes) :
                             Len(got.value[i].nodes[j].labels) = 0
                    THEN GraphFailed("list index out of range")
                    ELSE GraphStep([i \in 1..Len(got.value) |->
                                       RelationshipPath(got.value[i])])
               [] call.op = "get_entity_neighbors" ->
                    GraphStep(IF got.value.neighbors # <<>>
                              THEN << NeighborPath(req, got.value.neighbors) >>
                              ELSE <<>>)
               [] OTHER -> GraphStep(<<>>)

\* list(a_set): every order the elements may come out in
Lists(S) == OrderedBy(S, [x \in S |-> 0])

RECURSIVE SumConfidence(_)
SumConfidence(paths) ==
    IF paths = <<>> THEN 0 ELSE Head(paths).confidence + SumConfidence(Tail(paths))

RECURSIVE Filter(_, _)
Filter(paths, threshold) ==
    IF paths = <<>> THEN <<>>
    ELSE (IF Head(paths).confidence > threshold THEN << Head(paths) >> ELSE <<>>)
         \o Filter(Tail(paths), threshold)

EntitiesInvolved(paths) ==
    UNION { { e.name : e \in Range(paths[i].entities) } : i \in 1..Len(paths) }

RelationshipTypes(paths) ==
    UNION { { r.relation_type : r \in Range(paths[i].relations) } : i \in 1..Len(paths) }

\* variant: a path of confidence 0.7 counts as a high-confidence path
integrate_and_reason_FromThreshold(req, graph_results, entities, types) ==
    LET paths == DictGet(graph_results, "paths", <<>>)
    IN  IF paths = <<>>
        THEN ReasoningStep(3, "no relevant path found, cannot reason", "integration",
                           [integrated_info |-> "no relevant information"],
                           Frac(0, 100))
        ELSE ReasoningStep(3,
                "integration done, " \o ToString(Len(entities)) \o " entities involved",
                "integration",
                [integrated_info |->
                    [total_paths |-> Len(paths),
                     high_confidence_paths |-> Filter(paths, 69),
                     entities_involved |-> entities,
                     relationship_types |-> types],
                 paths |-> paths],
                Frac(SumConfidence(paths), 100 * Len(paths)))

\* _integrate_and_reason; entities and types are the orders list(set) produced
integrate_and_reason(req, graph_results, entities, types) ==
    LET paths == DictGet(graph_results, "paths", <<>>)
    IN  IF paths = <<>>
        THEN ReasoningStep(3, "no relevant path found, cannot reason", "integration",
                           [integrated_info |-> "no relevant information"],
                           Frac(0, 100))
        ELSE ReasoningStep(3,
                "integration done, " \o ToString(Len(entities)) \o " entities involved",
                "integration",
                [integrated_info |->
                    [total_paths |-> Len(paths),
                     high_confidence_paths |-> Filter(paths, 70),
                     entities_involved |-> entities,
                     relationship_types |-> types],
                 paths |-> paths],
                Frac(SumConfidence(paths), 100 * Len(paths)))

\* the lines _generate_final_answer renders for one step
StepContext(step) ==
    << "step " \o ToString(step.step_id) \o ": " \o step.description >> \o
    (IF step.data_source = "graph" /\ "paths" \in DOMAIN step.result
     THEN LET shown == Take(step.result.paths, 3)
          IN  [i \in 1..Len(shown) |->
                 "  path " \o ToString(i) \o ": " \o shown[i].reasoning
                 \o " (confidence: " \o ToString(shown[i].confidence) \o "/100)"]
     ELSE <<>>)

RECURSIVE ContextInfo(_)
ContextInfo(steps) ==
    IF steps = <<>> THEN <<>>
    ELSE StepContext(Head(steps)) \o ContextInfo(Tail(steps))

\* variant: the except branch leaves the answer empty
AnswerFailed_Silent(exc) ==
    [answer |-> "", confidence |-> 0, explanation |-> "system error"]

AnswerFailed(exc) ==
    [answer |-> "answer generation failed: " \o exc, confidence |-> 0,
     explanation |-> "system error"]

generate_final_answer(req, steps, outcome) ==
    LET response == call_llm(outcome)
        parsed == json_loads(response)
    IN  IF parsed.raised THEN AnswerFailed(parsed.exc)
        ELSE IF parsed.value.t # "dict"
             THEN AnswerFailed("'list' object has no attribute 'get'")
        ELSE LET res == parsed.value.d
                 confidence == ToFloat(DictGet(res, "confidence", Num(0)))
             IN  IF confidence.raised THEN AnswerFailed(confidence.exc)
                 ELSE [answer |-> DictGet(res, "answer", "cannot generate an answer"),
                       confidence |-> confidence.value,
                       explanation |-> DictGet(res, "explanation", "no explanation")]

RECURSIVE Descriptions(_)
Descriptions(steps) ==
    IF steps = <<>> THEN <<>>
    ELSE << Head(steps).description >> \o Descriptions(Tail(steps))

\* variant: a zero-confidence answer is returned without the paths, as the
\* outer except branch of process_query does
BuildResult_DropsPaths(req, steps, answer, elapsed) ==
    [query |-> req.query, query_type |-> req.query_type,
     paths |-> IF answer.confidence = 0 THEN <<>>
               ELSE DictGet(steps[2].result, "paths", <<>>),
     answer |-> answer.answer, confidence |-> answer.confidence,
     reasoning_steps |-> Descriptions(steps), execution_time |-> elapsed,
     metadata |-> [entity |-> req.entity, max_hops |-> req.max_hops,
                   steps_count |-> Len(steps),
                   graph_results_count |->
                       Len(DictGet(steps[2].result, "paths", <<>>))]]

\* the QueryResult process_query builds after stage 4; elapsed is
\* time.time() - start_time in whole seconds
BuildResult(req, steps, answer, elapsed) ==
    [query |-> req.query, query_type |-> req.query_type,
     paths |-> DictGet(steps[2].result, "paths", <<>>),
     answer |-> answer.answer, confidence |-> answer.confidence,
     reasoning_steps |-> Descriptions(steps), execution_time |-> elapsed,
     metadata |-> [entity |-> req.entity, max_hops |-> req.max_hops,
                   steps_count |-> Len(steps),
                   graph_results_count |->
                       Len(DictGet(steps[2].result, "paths", <<>>))]]

\* the QueryResult of process_query's except branch
ProcessQueryFailed(req, exc, elapsed) ==
    [query |-> req.query, query_type |-> req.query_type, paths |-> <<>>,
     answer |-> "query processing failed: " \o exc, confidence |-> 0,
     reasoning_steps |-> << "error: " \o exc >>, execution_time |-> elapsed,
     metadata |-> [error |-> exc]]

(***************************************************************************)
(* The locals of concurrent invocations, and the FAQ service at rest       *)
(***************************************************************************)
Tasks == 1 .. MaxTasks

\* what one invocation of process_query holds before it is entered; heard is
\* the history of what the collaborators answered to this invocation and
\* overlapped the history of whether it ran while another one was suspended
IdleTask ==
    [request |-> None, pc |-> "idle", reasoning_steps |-> <<>>,
     final_answer |-> None, result |-> None,
     heard |-> [outcome1 |-> None, rows |-> None, o |-> None, entities |-> None,
                types |-> None, outcome4 |-> None, elapsed |-> None],
     overlapped |-> FALSE]

TasksIdle == tasks = [t \in Tasks |-> IdleTask]

FaqThreads == 1 .. MaxThreads

\* no thread of the FAQ service has been started, the lock is free and the
\* collection built by FAQService.initialize exists
FaqIdle ==
    /\ threads = [t \in FaqThreads |-> [kind |-> "none", pc |-> "idle", success |-> FALSE]]
    /\ indexing_lock = 0
    /\ collection = TRUE

(***************************************************************************)
(* process_query, one action per stage                                     *)
(***************************************************************************)
Init ==
    /\ graph \in Graphs
    /\ request = None
    /\ pc = "idle"
    /\ reasoning_steps = <<>>
    /\ final_answer = None
    /\ result = None
    /\ llm_calls = <<>>
    /\ graph_calls = <<>>
    /\ stage_log = <<>>
    /\ batch = <<>> /\ results = <<>> /\ batch_pc = "idle" /\ batch_log = <<>>
    /\ loop_running = FALSE
    /\ invoked = None /\ returned = None /\ indexes = {}
    /\ TasksIdle /\ FaqIdle

\* process_query is entered with a request
ProcessQuery ==
    /\ pc = "idle"
    /\ \E req \in Requests : request' = req
    /\ pc' = "identify_intent"
    /\ UNCHANGED <<graph, reasoning_steps, final_answer, result, llm_calls,
                   graph_calls, stage_log>>
    /\ UNCHANGED <<batch_vars, call_vars, task_vars, faq_vars>>

\* step 1: step1 = await self._identify_query_intent(request)
IdentifyIntent ==
    /\ pc = "identify_intent"
    /\ \E outcome \in LlmOutcomes :
          /\ reasoning_steps' =
                Append(reasoning_steps, identify_query_intent(request, outcome))
          /\ llm_calls' = Append(llm_calls, [stage |-> 1, prompt |-> << request.query >>,
                                             outcome |-> outcome])
    /\ stage_log' = Append(stage_log, 1)
    /\ pc' = "execute_graph_query"
    /\ UNCHANGED <<graph, request, final_answer, result, graph_calls>>
    /\ UNCHANGED <<batch_vars, call_vars, task_vars, faq_vars>>

\* step 2: step2 = await self._execute_graph_query(request)
ExecuteGraphQuery ==
    /\ pc = "execute_graph_query"
    /\ LET call == Dispatch(request)
       IN  \E rows \in StoreRows(graph, call), o \in Outages :
              /\ reasoning_steps' =
                    Append(reasoning_steps,
                           execute_graph_query(graph, request, rows, o))
              /\ graph_calls' =
                    IF call = NoCall THEN graph_calls
                    ELSE LET got == AdapterCall(graph, call, rows, o)
                         IN  Append(graph_calls,
                                    [call |-> call, stage |-> 2,
                                     raised |-> got.raised,
                                     exc |-> IF got.raised THEN got.exc ELSE ""])
    /\ stage_log' = Append(stage_log, 2)
    /\ pc' = "integrate_and_reason"
    /\ UNCHANGED <<graph, request, final_answer, result, llm_calls>>
    /\ UNCHANGED <<batch_vars, call_vars, task_vars, faq_vars>>

\* variant: without paths the integration asks the store once more
IntegrateAndReason_Requeries ==
    /\ pc = "integrate_and_reason"
    /\ LET paths == DictGet(reasoning_steps[2].result, "paths", <<>>)
       IN  /\ \E entities \in Lists(EntitiesInvolved(paths)),
                 types \in Lists(RelationshipTypes(paths)) :
                 reasoning_steps' =
                    Append(reasoning_steps,
                           integrate_and_reason(request, reasoning_steps[2].result,
                                                entities, types))
           /\ graph_calls' =
                 IF paths = <<>>
                 THEN Append(graph_calls, [call |-> Dispatch(request), stage |-> 3,
                                           raised |-> FALSE, exc |-> ""])
                 ELSE graph_calls
    /\ stage_log' = Append(stage_log, 3)
    /\ pc' = "generate_final_answer"
    /\ UNCHANGED <<graph, request, final_answer, result, llm_calls>>
    /\ UNCHANGED <<batch_vars, call_vars, task_vars, faq_vars>>

\* variant: without paths the run ends after stage 3, stage 4 is not entered
IntegrateAndReason_ShortCircuit ==
    /\ pc = "integrate_and_reason"
    /\ LET paths == DictGet(reasoning_steps[2].result, "paths", <<>>)
       IN  \E entities \in Lists(EntitiesInvolved(paths)),
              types \in Lists(RelationshipTypes(paths)) :
              reasoning_steps' =
                 Append(reasoning_steps,
                        integrate_and_reason(request, reasoning_steps[2].result,
                                             entities, types))
    /\ stage_log' = Append(stage_log, 3)
    /\ IF DictGet(reasoning_steps[2].result, "paths", <<>>) = <<>>
       THEN /\ pc' = "build_result"
            /\ final_answer' = [answer |-> "no relevant information",
                                confidence |-> 0, explanation |-> ""]
       ELSE /\ pc' = "generate_final_answer"
            /\ UNCHANGED final_answer
    /\ UNCHANGED <<graph, request, result, llm_calls, graph_calls>>
    /\ UNCHANGED <<batch_vars, call_vars, task_vars, faq_vars>>

\* step 3: step3 = await self._integrate_and_reason(request, step2.result)
IntegrateAndReason ==
    /\ pc = "integrate_and_reason"
    /\ LET paths == DictGet(reasoning_steps[2].result, "paths", <<>>)
       IN  \E entities \in Lists(EntitiesInvolved(paths)),
              types \in Lists(RelationshipTypes(paths)) :
              reasoning_steps' =
                 Append(reasoning_steps,
                        integrate_and_reason(request, reasoning_steps[2].result,
                                             entities, types))
    /\ stage_log' = Append(stage_log, 3)
    /\ pc' = "generate_final_answer"
    /\ UNCHANGED <<graph, request, final_answer, result, llm_calls, graph_calls>>
    /\ UNCHANGED <<batch_vars, call_vars, task_vars, faq_vars>>

\* step 4: final_answer = await self._generate_final_answer(request, reasoning_steps)
GenerateFinalAnswer ==
    /\ pc = "generate_final_answer"
    /\ \E outcome \in LlmOutcomes :
          /\ final_answer' = generate_final_answer(request, reasoning_steps, outcome)
          /\ llm_calls' =
                Append(llm_calls,
                       [stage |-> 4,
                        prompt |-> << request.query, request.entity,
                                      request.query_type >>
                                   \o ContextInfo(reasoning_steps),
                        outcome |-> outcome])
    /\ stage_log' = Append(stage_log, 4)
    /\ pc' = "build_result"
    /\ UNCHANGED <<graph, request, reasoning_steps, result, graph_calls>>
    /\ UNCHANGED <<batch_vars, call_vars, task_vars, faq_vars>>

\* result = QueryResult(...); return result.  final_answer['answer'] and
\* final_answer['confidence'] raise KeyError on a dict without the key, which
\* the except branch of process_query turns into its own QueryResult.
ReturnResult ==
    /\ pc = "build_result"
    /\ \E elapsed \in 0 .. MaxSeconds :
          result' = IF { "answer", "confidence" } \subseteq DOMAIN final_answer
                    THEN BuildResult(request, reasoning_steps, final_answer, elapsed)
                    ELSE ProcessQueryFailed(request, "KeyError", elapsed)
    /\ pc' = "done"
    /\ UNCHANGED <<graph, request, reasoning_steps, final_answer, llm_calls,
                   graph_calls, stage_log>>
    /\ UNCHANGED <<batch_vars, call_vars, task_vars, faq_vars>>

Next ==
    \/ ProcessQuery
    \/ IdentifyIntent
    \/ ExecuteGraphQuery
    \/ IntegrateAndReason
    \/ GenerateFinalAnswer
    \/ ReturnResult

Spec == Init /\ [][Next]_vars

(***************************************************************************)
(* Vocabulary of the properties                                            *)
(***************************************************************************)
Done == pc = "done"

\* the completion call failed in transport (or delivered no content)
TransportFailure(o) == o.kind # "content"

\* the completion call returned text that is not JSON
MalformedText(o) == o.kind = "content" /\ o.text.fmt # "json"

\* the completion call returned JSON no answer can be read from
UnusableJson(o) ==
    /\ o.kind = "content" /\ o.text.fmt = "json"
    /\ \/ o.text.val.t # "dict"
       \/ /\ "confidence" \in DOMAIN o.text.val.d
          /\ o.text.val.d.confidence.t # "num"

AnswerPrevented(o) == TransportFailure(o) \/ MalformedText(o) \/ UnusableJson(o)

FailureAnswers ==
    { "the system cannot handle this query for now" } \cup
    { "answer generation failed: " \o e :
        e \in { "JSONDecodeError", "'list' object has no attribute 'get'",
                "could not convert to float" } } \cup
    { "query processing failed: KeyError" }

Stage1Outcome == llm_calls[1].outcome
Stage4Outcome == llm_calls[2].outcome

ResultFields ==
    { "query", "query_type", "paths", "answer", "confidence", "reasoning_steps",
      "execution_time", "metadata" }

\* C1: process_query ends with a QueryResult for every request and every
\* outcome of the completion service and the graph store; when the stage-4
\* completion failed (transport error, text that is no JSON, JSON that is no
\* object or whose confidence is no number) the result has confidence 0.0 and
\* a non-empty failure message as its answer.
C1_ResultOnEveryOutcome ==
    Done =>
       /\ DOMAIN result = ResultFields
       /\ result.query = request.query
       /\ AnswerPrevented(Stage4Outcome) =>
             /\ result.confidence = 0
             /\ result.answer # ""
             /\ result.answer \in FailureAnswers

C1_Witness ==
    /\ Done
    /\ MalformedText(Stage4Outcome)
    /\ graph_calls # <<>> /\ graph_calls[1].raised
    /\ result.confidence = 0

C3_FixedStageOrder ==
    /\ stage_log = SubSeq(<< 1, 2, 3, 4 >>, 1, Len(stage_log))
    /\ Done =>
          /\ stage_log = << 1, 2, 3, 4 >>
          /\ Len(llm_calls) = 2
          /\ llm_calls[1].stage = 1 /\ llm_calls[2].stage = 4

C3_Witness ==
    /\ Done
    /\ reasoning_steps[1].confidence.num = 0
    /\ reasoning_steps[2].result.paths = <<>>
    /\ stage_log = << 1, 2, 3, 4 >>
    /\ llm_calls[2].stage = 4

\* C4: the graph-store call of stage 2 and the query type of the result are
\* fixed by the request's query type, entity and max_hops alone, whatever
\* the completion service answered in stage 1.
C4_IntentIsAdvisory ==
    /\ Len(stage_log) >= 2 =>
          /\ request.query_type = "shareholder" =>
                /\ Len(graph_calls) = 1
                /\ graph_calls[1].call =
                      [op |-> "find_shareholders", entity |-> request.entity,
                       hops |-> request.max_hops]
          /\ request.query_type = "control_chain" =>
                /\ Len(graph_calls) = 1
                /\ graph_calls[1].call.op = "find_controlling_shareholder"
                /\ graph_calls[1].call.entity = request.entity
          /\ request.query_type = "relationship" =>
                /\ Len(graph_calls) = 1
                /\ graph_calls[1].call =
                      [op |-> "find_multi_hop_relationships",
                       entity |-> request.entity, hops |-> request.max_hops]
          /\ request.query_type = "entity_info" =>
                /\ Len(graph_calls) = 1
                /\ graph_calls[1].call =
                      [op |-> "get_entity_neighbors", entity |-> request.entity,
                       hops |-> 2]
          /\ request.query_type \notin QueryType => graph_calls = <<>>
    /\ Done => result.query_type = request.query_type

C4_Witness ==
    /\ Len(stage_log) >= 2
    /\ request.query_type = "shareholder" /\ request.entity = "A"
    /\ Stage1Outcome.kind = "content" /\ Stage1Outcome.text.fmt = "json"
    /\ Stage1Outcome.text.val.t = "dict"
    /\ DictGet(reasoning_steps[1].result, "query_type", "") = "control_chain"
    /\ DictGet(reasoning_steps[1].result, "entity", "") = "B"
    /\ graph_calls[1].call.entity = "A"

\* stage 4 and the construction of the result do not touch the recorded steps
Stage4KeepsSteps ==
    pc \in { "generate_final_answer", "build_result" } =>
       reasoning_steps' = reasoning_steps

\* C5: when the completion call succeeded in stage 1 and fails with a
\* connection error in stage 4, the result has confidence 0.0 and a
\* non-empty failure message as answer; stage 4 leaves the three recorded
\* steps (and with them their confidences) as they were, and the result
\* carries the paths stage 2 found.
C5_Stage4FailureKeepsSteps ==
    /\ [](Done /\ Stage1Outcome.kind = "content" /\ Stage4Outcome.kind = "error" =>
            /\ result.confidence = 0
            /\ result.answer # "" /\ result.answer \in FailureAnswers
            /\ result.paths = reasoning_steps[2].result.paths
            /\ result.metadata.graph_results_count =
                  Len(reasoning_steps[2].result.paths))
    /\ [][Stage4KeepsSteps]_vars

C5_Witness ==
    /\ Done
    /\ Stage1Outcome.kind = "content" /\ Stage4Outcome.kind = "error"
    /\ reasoning_steps[1].confidence = Frac(80, 100)
    /\ reasoning_steps[2].confidence = Frac(90, 100)
    /\ reasoning_steps[3].confidence.num > 0
    /\ Len(result.paths) >= 2
    /\ result.confidence = 0

\* C6 as claimed: text that does not parse and a transport failure of the
\* completion call are treated alike: in stage 1 either gives a step of
\* confidence 0.0 with an empty intent payload, in stage 4 either gives an
\* overall confidence 0.0 and a failure answer.
C6_TransportLikeMalformed ==
    /\ Len(reasoning_steps) >= 1 /\ ( TransportFailure(Stage1Outcome)
                                      \/ MalformedText(Stage1Outcome) ) =>
          /\ reasoning_steps[1].confidence.num = 0
          /\ reasoning_steps[1].result = EmptyDict
    /\ Done /\ ( TransportFailure(Stage4Outcome) \/ MalformedText(Stage4Outcome) ) =>
          /\ result.confidence = 0
          /\ result.answer \in FailureAnswers

\* C7 as claimed: a store-communication failure never leaves a traversal
\* operation of the adapters as an exception raised to the coordinator.
C7_AdaptersNeverRaise ==
    \A i \in 1..Len(graph_calls) :
       ~ (graph_calls[i].raised /\ graph_calls[i].exc = "ServiceUnavailable")

\* C8 as claimed: a request whose query type has no traversal branch never
\* gets the ordinary graph step of a search that found nothing (no path,
\* confidence 0.1).
C8_UnknownTypeRejected ==
    Len(reasoning_steps) >= 2 /\ request.query_type \notin QueryType =>
       ~ /\ reasoning_steps[2].result.paths = <<>>
         /\ reasoning_steps[2].confidence = Frac(10, 100)
         /\ reasoning_steps[2].description = "graph query done, found 0 paths"

\* C9 as claimed: for a request with max_hops <= 0 no traversal call reaches
\* the graph store.
C9_NonPositiveHopsRejected ==
    pc # "idle" /\ request.max_hops <= 0 => graph_calls = <<>>

MaxScoreHops == 7     \* _calculate_path_confidence is given hops in -1 .. MaxScoreHops
MaxRelations == 2     \* relation lists of up to MaxRelations relations
MaxEntities == 3      \* entity lists of up to MaxEntities entities

Seqs(S, n) == UNION { [1..k -> S] : k \in 0..n }

RelationProperties ==
    { [percentage |-> 0, control_type |-> ""],
      [percentage |-> 50, control_type |-> ""],
      [percentage |-> 51, control_type |-> ""],
      [percentage |-> 70, control_type |-> "significant"],
      [percentage |-> 30, control_type |-> "controlling"],
      [percentage |-> 70, control_type |-> "controlling"],
      [control_type |-> "controlling"] }

SomeRelations == { Relation("", "", "SHAREHOLDER", p) : p \in RelationProperties }

SomeEntities ==
    { Entity("c1", "A", "Company", EmptyDict), Entity("p1", "P", "Person", EmptyDict) }

ProcessIdle ==
    /\ request = None
    /\ pc = "idle"
    /\ reasoning_steps = <<>>
    /\ final_answer = None
    /\ result = None
    /\ llm_calls = <<>>
    /\ graph_calls = <<>>
    /\ stage_log = <<>>

BatchIdle ==
    /\ batch = <<>> /\ results = <<>> /\ batch_pc = "idle" /\ batch_log = <<>>
    /\ loop_running = FALSE

Invoked(fn) == "fn" \in DOMAIN invoked /\ invoked.fn = fn

\* self._calculate_path_confidence(hops, relations)
CalculatePathConfidence ==
    /\ invoked = None
    /\ \E hops \in -1 .. MaxScoreHops, relations \in Seqs(SomeRelations, MaxRelations) :
          /\ invoked' = [fn |-> "_calculate_path_confidence",
                         args |-> [hops |-> hops, relations |-> relations]]
          /\ returned' = Return(calculate_path_confidence(hops, relations))
    /\ UNCHANGED <<process_vars, batch_vars, indexes, task_vars, faq_vars>>

\* self._generate_reasoning(entities, relations)
GenerateReasoning ==
    /\ invoked = None
    /\ \E entities \in Seqs(SomeEntities, MaxEntities),
          relations \in Seqs(SomeRelations, MaxRelations) :
          /\ invoked' = [fn |-> "_generate_reasoning",
                         args |-> [entities |-> entities, relations |-> relations]]
          /\ returned' = Return(generate_reasoning(entities, relations))
    /\ UNCHANGED <<process_vars, batch_vars, indexes, task_vars, faq_vars>>

(***************************************************************************)
(* batch_process_queries and get_query_statistics                          *)
(***************************************************************************)
MaxBatch == 3         \* a batch holds up to MaxBatch requests
MaxResults == 3       \* get_query_statistics is given up to MaxResults results

QueryResult(query, query_type, paths, answer, confidence, steps, seconds, metadata) ==
    [query |-> query, query_type |-> query_type, paths |-> paths,
     answer |-> answer, confidence |-> confidence, reasoning_steps |-> steps,
     execution_time |-> seconds, metadata |-> metadata]

\* one run of process_query from entry to return: the four stages in turn on
\* what the collaborators answer, then the QueryResult
process_query(g, req, outcome1, rows, o, entities, types, outcome4, elapsed) ==
    LET step1 == identify_query_intent(req, outcome1)
        step2 == execute_graph_query(g, req, rows, o)
        step3 == integrate_and_reason(req, step2.result, entities, types)
        steps == << step1, step2, step3 >>
        answer == generate_final_answer(req, steps, outcome4)
    IN  IF { "answer", "confidence" } \subseteq DOMAIN answer
        THEN BuildResult(req, steps, answer, elapsed)
        ELSE ProcessQueryFailed(req, "KeyError", elapsed)

\* variant: a confidence of exactly 0.5 counts as a success
Successful_FromHalf(r) == r.confidence >= 50

\* r.confidence > 0.5, the test of both success counts
Successful(r) == r.confidence > 50

\* a / b of Python: ZeroDivisionError when b is 0, else the quotient as a fraction
Divide(a, b) == IF b = 0 THEN Raise("ZeroDivisionError") ELSE Return(Frac(a, b))

RECURSIVE SumExecutionTime(_)
SumExecutionTime(rs) ==
    IF rs = <<>> THEN 0 ELSE Head(rs).execution_time + SumExecutionTime(Tail(rs))

\* the first loop of get_query_statistics: count and success count per type
RECURSIVE CountByType(_, _)
CountByType(rs, query_type_stats) ==
    IF rs = <<>> THEN query_type_stats
    ELSE LET r == Head(rs)
             query_type == r.query_type
             known == IF query_type \in DOMAIN query_type_stats THEN query_type_stats
                      ELSE query_type_stats
                           @@ (query_type :> [count |-> 0, success_rate |-> 0])
             counted == [known EXCEPT ![query_type].count = @ + 1]
         IN  CountByType(Tail(rs),
                         IF Successful(r)
                         THEN [counted EXCEPT ![query_type].success_rate = @ + 1]
                         ELSE counted)

\* the second loop: success_count / count if count > 0 else 0
TypeRates(query_type_stats) ==
    [query_type \in DOMAIN query_type_stats |->
        LET count == query_type_stats[query_type].count
            success_count == query_type_stats[query_type].success_rate
        IN  [count |-> count,
             success_rate |-> IF count > 0 THEN Divide(success_count, count)
                              ELSE Return(Frac(0, 1))]]

\* the summary once every division is done: the first ZeroDivisionError, if
\* any, is what the method raises
Statistics(rs) ==
    LET total_queries == Len(rs)
        successful_queries == Cardinality({ i \in 1..Len(rs) : Successful(rs[i]) })
        avg_confidence == Divide(SumConfidence(rs), 100 * total_queries)
        avg_execution_time == Divide(SumExecutionTime(rs), total_queries)
        query_type_stats == TypeRates(CountByType(rs, EmptyDict))
        success_rate == Divide(successful_queries, total_queries)
    IN  IF \/ avg_confidence.raised \/ avg_execution_time.raised \/ success_rate.raised
           \/ \E t \in DOMAIN query_type_stats : query_type_stats[t].success_rate.raised
        THEN Raise("ZeroDivisionError")
        ELSE Return([total_queries |-> total_queries,
                     successful_queries |-> successful_queries,
                     success_rate |-> success_rate.value,
                     average_confidence |-> avg_confidence.value,
                     average_execution_time |-> avg_execution_time.value,
                     query_type_statistics |->
                        [t \in DOMAIN query_type_stats |->
                            [count |-> query_type_stats[t].count,
                             success_rate |-> query_type_stats[t].success_rate.value]]])

\* variant: without the early return for an empty list
get_query_statistics_NoEmptyGuard(rs) == Statistics(rs)

get_query_statistics(rs) ==
    IF rs = <<>> THEN Return(EmptyDict) ELSE Statistics(rs)

\* the QueryResult of batch_process_queries' except branch
BatchFailed(req, exc) ==
    QueryResult(req.query, req.query_type, <<>>, "processing failed: " \o exc,
                0, <<>>, 0, [error |-> exc])

\* asyncio.run refuses to start inside a thread whose event loop is running
LoopRunningError == "asyncio.run() cannot be called from a running event loop"

BatchRequests ==
    { QueryRequest("who holds A", "shareholder", "A", 2),
      QueryRequest("who controls A", "control_chain", "A", 1) }

\* what the completion service answers during a batch
BatchLlmOutcomes ==
    { [kind |-> "error", text |-> Malformed],
      [kind |-> "content",
       text |-> json_dumps([answer |-> "C is the largest shareholder",
                            confidence |-> Num(90), explanation |-> "one hop"])] }

\* what it answers to the intent prompt of stage 1 during a batch
BatchIntentOutcomes ==
    { [kind |-> "content",
       text |-> json_dumps([query_type |-> "control_chain", entity |-> "B"])] }

\* how long a run of process_query takes during a batch
BatchSeconds == { MaxSeconds }

NoOutage == [fails |-> FALSE, after |-> 0]

\* during a batch the store either serves a request or is down for all of it
BatchOutages == { o \in Outages : o.after = 0 }

\* the caller's thread may or may not be running an event loop already
InitBatch ==
    /\ graph = GraphChain
    /\ ProcessIdle
    /\ batch = <<>> /\ results = <<>> /\ batch_pc = "idle" /\ batch_log = <<>>
    /\ loop_running \in BOOLEAN
    /\ invoked = None
    /\ returned = None
    /\ indexes = {}
    /\ TasksIdle /\ FaqIdle

\* batch_process_queries(requests) is entered: results = []
BatchProcessQueries ==
    /\ batch_pc = "idle"
    /\ \E requests \in Seqs(BatchRequests, MaxBatch) : batch' = requests
    /\ results' = <<>>
    /\ batch_pc' = "loop"
    /\ UNCHANGED <<process_vars, batch_log, loop_running, call_vars, task_vars, faq_vars>>

\* variant: the exception of a request is not caught, it ends the batch
BatchProcessNext_AbortsOnFailure ==
    /\ batch_pc = "loop"
    /\ Len(results) < Len(batch)
    /\ LET req == batch[Len(results) + 1]
       IN  IF loop_running
           THEN /\ batch_pc' = "raised"
                /\ UNCHANGED <<results, batch_log>>
           ELSE /\ \E outcome1 \in BatchIntentOutcomes, outcome4 \in BatchLlmOutcomes,
                      rows \in StoreRows(graph, Dispatch(req)), o \in BatchOutages,
                      elapsed \in BatchSeconds :
                      LET paths == DictGet(execute_graph_query(graph, req, rows, o).result,
                                           "paths", <<>>)
                      IN  \E entities \in Lists(EntitiesInvolved(paths)),
                             types \in Lists(RelationshipTypes(paths)) :
                             /\ results' =
                                   Append(results,
                                          process_query(graph, req, outcome1, rows, o,
                                                        entities, types, outcome4,
                                                        elapsed))
                             /\ batch_log' =
                                   Append(batch_log,
                                          [ran |-> TRUE,
                                           store_failed |-> Interrupted(rows, o),
                                           outcome1 |-> outcome1,
                                           outcome4 |-> outcome4])
                /\ UNCHANGED batch_pc
    /\ UNCHANGED <<process_vars, batch, loop_running, call_vars, task_vars, faq_vars>>

\* one pass of the for loop: asyncio.run(self.process_query(request)) and
\* results.append(result), or the except branch
BatchProcessNext ==
    /\ batch_pc = "loop"
    /\ Len(results) < Len(batch)
    /\ LET req == batch[Len(results) + 1]
       IN  IF loop_running
           THEN /\ results' = Append(results, BatchFailed(req, LoopRunningError))
                /\ batch_log' = Append(batch_log,
                                       [ran |-> FALSE, store_failed |-> FALSE,
                                        outcome1 |-> None, outcome4 |-> None])
           ELSE \E outcome1 \in BatchIntentOutcomes, outcome4 \in BatchLlmOutcomes,
                   rows \in StoreRows(graph, Dispatch(req)), o \in BatchOutages,
                   elapsed \in BatchSeconds :
                   LET paths == DictGet(execute_graph_query(graph, req, rows, o).result,
                                        "paths", <<>>)
                   IN  \E entities \in Lists(EntitiesInvolved(paths)),
                          types \in Lists(RelationshipTypes(paths)) :
                          /\ results' =
                                Append(results,
                                       process_query(graph, req, outcome1, rows, o,
                                                     entities, types, outcome4, elapsed))
                          /\ batch_log' =
                                Append(batch_log,
                                       [ran |-> TRUE,
                                        store_failed |-> Interrupted(rows, o),
                                        outcome1 |-> outcome1,
                                        outcome4 |-> outcome4])
    /\ UNCHANGED <<process_vars, batch, batch_pc, loop_running, call_vars, task_vars, faq_vars>>

\* return results
BatchReturn ==
    /\ batch_pc = "loop"
    /\ Len(results) = Len(batch)
    /\ batch_pc' = "returned"
    /\ UNCHANGED <<process_vars, batch, results, batch_log, loop_running, call_vars, task_vars, faq_vars>>

SomeResults ==
    { QueryResult("a question", query_type, <<>>, "an answer", confidence, <<>>,
                  execution_time, EmptyDict) :
        query_type \in {"shareholder", "relationship"},
        confidence \in {0, 50, 90},
        execution_time \in {0, MaxSeconds} }

\* self.get_query_statistics(results) on any list of results; the method reads
\* results and writes only its own locals, so the list is the same afterwards
GetQueryStatistics ==
    /\ invoked = None
    /\ \E rs \in Seqs(SomeResults, MaxResults) :
          /\ invoked' = [fn |-> "get_query_statistics", args |-> [results |-> rs],
                         after |-> [results |-> rs]]
          /\ returned' = get_query_statistics(rs)
    /\ UNCHANGED <<process_vars, batch_vars, indexes, task_vars, faq_vars>>

\* the caller hands the results of the batch to get_query_statistics
BatchStatistics ==
    /\ batch_pc = "returned"
    /\ invoked' = [fn |-> "get_query_statistics", args |-> [results |-> results],
                   after |-> [results |-> results]]
    /\ returned' = get_query_statistics(results)
    /\ batch_pc' = "reported"
    /\ UNCHANGED <<process_vars, batch, results, batch_log, loop_running, indexes, task_vars, faq_vars>>

MaxDepth == 2         \* get_entity_neighbors is given max_depth in 1 .. MaxDepth

\* self.neo4j_manager.get_entity_neighbors(entity_name, max_depth)
GetEntityNeighbors ==
    /\ invoked = None
    /\ \E entity_name \in {"A", "B", "C"}, max_depth \in 1 .. MaxDepth, o \in Outages :
          \E rows \in NeighborRows(graph, entity_name, max_depth) :
             /\ invoked' = [fn |-> "get_entity_neighbors",
                            args |-> [entity_name |-> entity_name,
                                      max_depth |-> max_depth]]
             /\ returned' = get_entity_neighbors(entity_name, rows, o)
    /\ UNCHANGED <<process_vars, batch_vars, indexes, task_vars, faq_vars>>

InitCalls ==
    /\ graph = GraphSample
    /\ ProcessIdle
    /\ BatchIdle
    /\ invoked = None
    /\ returned = None
    /\ indexes = {}
    /\ TasksIdle /\ FaqIdle

NextCalls ==
    \/ CalculatePathConfidence
    \/ GenerateReasoning
    \/ GetQueryStatistics
    \/ GetEntityNeighbors

SpecCalls == InitCalls /\ [][NextCalls]_vars

NextBatch ==
    \/ BatchProcessQueries
    \/ BatchProcessNext
    \/ BatchReturn
    \/ BatchStatistics

SpecBatch == InitBatch /\ [][NextBatch]_vars

(***************************************************************************)
(* create_indexes of both managers                                         *)
(***************************************************************************)
Index(name, label, property) == [name |-> name, label |-> label, property |-> property]

\* the statements of KnowledgeGraphManager.create_indexes, in order
KgIndexes ==
    << Index("entity_name", "Entity", "name"),
       Index("company_name", "Company", "name"),
       Index("person_name", "Person", "name") >>

\* the statements of Neo4jManager.create_indexes, in order
Neo4jIndexes ==
    << Index("company_name", "Company", "name"),
       Index("company_id", "Company", "id"),
       Index("shareholder_name", "Shareholder", "name"),
       Index("shareholder_id", "Shareholder", "id") >>

\* an index of the same name or on the same label and property is in the store
Exists(ix, index) ==
    \E i \in ix : \/ i.name = index.name
                  \/ i.label = index.label /\ i.property = index.property

\* variant: CREATE INDEX name FOR .. ON .. without IF NOT EXISTS
CreateIndex_Plain(ix, index) ==
    IF Exists(ix, index) THEN Raise("EquivalentSchemaRuleAlreadyExists")
    ELSE Return(ix \cup {index})

\* CREATE INDEX name IF NOT EXISTS FOR (n:label) ON (n.property)
CreateIndex(ix, index) ==
    IF Exists(ix, index) THEN Return(ix) ELSE Return(ix \cup {index})

\* the session.run calls of a create_indexes in turn; under outage o the store
\* serves o.after statements and fails the next one.  No call is caught.
RECURSIVE RunStatements(_, _, _)
RunStatements(ix, statements, o) ==
    IF statements = <<>> THEN [raised |-> FALSE, exc |-> "", indexes |-> ix]
    ELSE IF o.fails /\ o.after = 0
         THEN [raised |-> TRUE, exc |-> "ServiceUnavailable", indexes |-> ix]
    ELSE LET got == CreateIndex(ix, Head(statements))
         IN  IF got.raised THEN [raised |-> TRUE, exc |-> got.exc, indexes |-> ix]
             ELSE RunStatements(got.value, Tail(statements),
                                [o EXCEPT !.after = IF @ > 0 THEN @ - 1 ELSE 0])

\* indexes somebody created before: one under a name of ours on another
\* property, one on a label and property of ours under another name
PriorIndexes ==
    { Index("company_name", "Company", "code"),
      Index("by_person", "Person", "name"),
      Index("shareholder_id", "Shareholder", "id") }

Consistent(ix) ==
    \A i \in ix, j \in ix :
       (i.name = j.name \/ (i.label = j.label /\ i.property = j.property)) => i = j

InitIndexes ==
    /\ graph = GraphSample
    /\ ProcessIdle
    /\ BatchIdle
    /\ invoked = None
    /\ returned = None
    /\ indexes \in { ix \in SUBSET PriorIndexes : Consistent(ix) }
    /\ TasksIdle /\ FaqIdle

\* a call of create_indexes of the manager whose statements are given
CreateIndexes(fn, statements) ==
    /\ \E o \in Outages :
          LET got == RunStatements(indexes, statements, o)
          IN  /\ indexes' = got.indexes
              /\ returned' = IF got.raised THEN Raise(got.exc) ELSE Return(None)
    /\ invoked' = [fn |-> fn, before |-> indexes,
                   again |-> Invoked(fn) /\ ~returned.raised]
    /\ UNCHANGED <<process_vars, batch_vars, task_vars, faq_vars>>

KgCreateIndexes == CreateIndexes("KnowledgeGraphManager.create_indexes", KgIndexes)

Neo4jCreateIndexes == CreateIndexes("Neo4jManager.create_indexes", Neo4jIndexes)

NextIndexes ==
    \/ KgCreateIndexes
    \/ Neo4jCreateIndexes

SpecIndexes == InitIndexes /\ [][NextIndexes]_vars

(***************************************************************************)
(* Properties of the scorer, the reasoning text and the control chain      *)
(***************************************************************************)
\* the relations of a list that satisfy a test, counted
CountRelations(relations, Test(_)) ==
    Cardinality({ i \in 1..Len(relations) : Test(relations[i]) })

MajorityHeld(relation) == DictGet(relation.properties, "percentage", 0) > 50
Controlling(relation) ==
    DictGet(relation.properties, "control_type", "") = "controlling"

\* C11: for a path without relations and h >= 1 hops the score is
\* max(0.1, 1.0 - (h - 1) * 0.2), and no shorter path of that kind scores less.
C11_BaseDecay ==
    ( /\ Invoked("_calculate_path_confidence")
      /\ invoked.args.relations = <<>>
      /\ invoked.args.hops >= 1 ) =>
        LET h == invoked.args.hops
        IN  /\ returned = Return(Max(10, 100 - (h - 1) * 20))
            /\ \A shorter \in 1..h :
                  calculate_path_confidence(shorter, <<>>) >= returned.value

C11_Witness ==
    /\ Invoked("_calculate_path_confidence")
    /\ invoked.args.relations = <<>>
    /\ invoked.args.hops = 6
    /\ returned = Return(10)

\* C12: the score lies in [0.1, 1.0] for every hop count and relation list.
C12_ScoreInRange ==
    Invoked("_calculate_path_confidence") =>
        /\ ~returned.raised
        /\ returned.value >= 10
        /\ returned.value <= 100

C12_Witness ==
    /\ Invoked("_calculate_path_confidence")
    /\ invoked.args.hops = 2
    /\ Len(invoked.args.relations) = 2
    /\ \A i \in 1..2 : Controlling(invoked.args.relations[i])
                       /\ ~MajorityHeld(invoked.args.relations[i])
    /\ returned = Return(100)

\* C13 as claimed: every relation with percentage > 50 adds 0.1 and every
\* relation with control type "controlling" adds 0.15, each counted on its own,
\* so a relation with both adds 0.25 to the sum that is then capped at 1.0.
C13_BonusesIndependent ==
    Invoked("_calculate_path_confidence") =>
        LET h == invoked.args.hops
            relations == invoked.args.relations
        IN  returned = Return(Min(100, Max(10, 100 - (h - 1) * 20)
                                       + 10 * CountRelations(relations, MajorityHeld)
                                       + 15 * CountRelations(relations, Controlling)))

\* C14: with an empty entity list or an empty relation list _generate_reasoning
\* returns the fixed sentinel text, never the empty string, and does not raise.
C14_SentinelOnEmptyInput ==
    ( /\ Invoked("_generate_reasoning")
      /\ invoked.args.entities = <<>> \/ invoked.args.relations = <<>> ) =>
        /\ ~returned.raised
        /\ returned.value = "no reasoning path can be generated"
        /\ returned.value # ""

C14_Witness ==
    /\ Invoked("_generate_reasoning")
    /\ Len(invoked.args.entities) = 2
    /\ invoked.args.relations = <<>>
    /\ returned = Return("no reasoning path can be generated")

\* the SHAREHOLDER relations that end in a Company of the given name
InboundHoldings(g, company_name) ==
    { e \in g.edges :
        /\ e.type = "SHAREHOLDER"
        /\ \E n \in g.nodes : /\ n.id = e.to
                              /\ n.name = company_name
                              /\ "Company" \in Range(n.labels) }

NoControllingHolding(g, company_name) ==
    \A e \in InboundHoldings(g, company_name) :
       /\ ~MajorityHeld(e)
       /\ ~Controlling(e)

\* C15: when no inbound shareholder relation of the entity has percentage > 50
\* or control type "controlling", find_controlling_shareholder returns None
\* without raising, and a control_chain request ends as a run without data:
\* the store call did not raise, step 2 reports zero paths, the four stages ran
\* and the result carries no paths and is not the one of the except branch.
C15_NoControllerIsNoData ==
    ( /\ Done
      /\ request.query_type = "control_chain"
      /\ NoControllingHolding(graph, request.entity) ) =>
        /\ \A rows \in ControllingRows(graph, request.entity), o \in Outages :
              find_controlling_shareholder(graph, request.entity, rows, o)
                 = Return(None)
        /\ Len(graph_calls) = 1
        /\ graph_calls[1].call.op = "find_controlling_shareholder"
        /\ ~graph_calls[1].raised
        /\ reasoning_steps[2].description = "graph query done, found 0 paths"
        /\ reasoning_steps[2].confidence = Frac(10, 100)
        /\ stage_log = << 1, 2, 3, 4 >>
        /\ result.paths = <<>>
        /\ result.metadata.graph_results_count = 0
        /\ "error" \notin DOMAIN result.metadata

C15_Witness ==
    /\ Done
    /\ request.query_type = "control_chain"
    /\ InboundHoldings(graph, request.entity) # {}
    /\ NoControllingHolding(graph, request.entity)
    /\ result.paths = <<>>
    /\ result.confidence = 90

(***************************************************************************)
(* Properties of batch_process_queries                                     *)
(***************************************************************************)
BatchReturned == batch_pc \in {"returned", "reported"}

Unaffected(i) ==
    \E outcome1 \in BatchIntentOutcomes, outcome4 \in BatchLlmOutcomes,
       rows \in StoreRows(graph, Dispatch(batch[i])), elapsed \in BatchSeconds :
       LET paths == DictGet(execute_graph_query(graph, batch[i], rows, NoOutage).result,
                            "paths", <<>>)
       IN  \E entities \in Lists(EntitiesInvolved(paths)),
              types \in Lists(RelationshipTypes(paths)) :
              results[i] = process_query(graph, batch[i], outcome1, rows, NoOutage,
                                         entities, types, outcome4, elapsed)

\* C17 as claimed: in a batch of three whose store is down during request 2
\* only, and whose requests 1 and 3 succeed, results 1 and 3 are what they are
\* without the outage, result 2 has a confidence of at most 0.5 and
\* get_query_statistics reports a success rate of 2/3.
C17_OutageOnSecondOfThree ==
    ( /\ batch_pc = "reported"
      /\ Len(batch) = 3
      /\ ~batch_log[1].store_failed /\ batch_log[2].store_failed
      /\ ~batch_log[3].store_failed
      /\ results[1].confidence > 50 /\ results[3].confidence > 50 ) =>
        /\ Unaffected(1)
        /\ Unaffected(3)
        /\ results[2].confidence <= 50
        /\ ~returned.raised
        /\ returned.value.success_rate.num * 3 = 2 * returned.value.success_rate.den

(***************************************************************************)
(* Properties of get_query_statistics                                      *)
(***************************************************************************)
StatisticsOf(rs) == Invoked("get_query_statistics") /\ invoked.args.results = rs

Denominators(summary) ==
    { summary.success_rate.den, summary.average_confidence.den,
      summary.average_execution_time.den }
    \cup { summary.query_type_statistics[t].success_rate.den :
             t \in DOMAIN summary.query_type_statistics }

\* C18: for the empty list get_query_statistics returns the empty summary and
\* divides nothing; for a non-empty list no division, overall or per type, has
\* a zero divisor.
C18_NoDivisionByZero ==
    Invoked("get_query_statistics") =>
        /\ ~returned.raised
        /\ invoked.args.results = <<>> => returned.value = EmptyDict
        /\ invoked.args.results # <<>> =>
              \A den \in Denominators(returned.value) : den > 0

C18_Witness ==
    /\ StatisticsOf(<<>>)
    /\ returned = Return(EmptyDict)

\* the positions of a result list that hold a result of the type
OfType(rs, t) == { i \in 1..Len(rs) : rs[i].query_type = t }

\* the positions whose confidence is above 0.5
Above(rs) == { i \in 1..Len(rs) : rs[i].confidence > 50 }

RECURSIVE SumCounts(_, _)
SumCounts(stats, types) ==
    IF types = {} THEN 0
    ELSE LET t == CHOOSE x \in types : TRUE
         IN  stats[t].count + SumCounts(stats, types \ {t})

\* C19: for a non-empty list the summary has total_queries = the length,
\* successful_queries = the number of results with confidence > 0.5,
\* success_rate = successful / total; the per-type counts add up to the total
\* and each type's success_rate is its results above 0.5 over its results; the
\* list handed in is as it was.
C19_StatisticsCounts ==
    ( /\ Invoked("get_query_statistics")
      /\ invoked.args.results # <<>> ) =>
        LET rs == invoked.args.results
            summary == returned.value
            by_type == summary.query_type_statistics
        IN  /\ ~returned.raised
            /\ summary.total_queries = Len(rs)
            /\ summary.successful_queries = Cardinality(Above(rs))
            /\ summary.success_rate.num * Len(rs)
                  = Cardinality(Above(rs)) * summary.success_rate.den
            /\ DOMAIN by_type = { rs[i].query_type : i \in 1..Len(rs) }
            /\ SumCounts(by_type, DOMAIN by_type) = Len(rs)
            /\ \A t \in DOMAIN by_type :
                  /\ by_type[t].count = Cardinality(OfType(rs, t))
                  /\ by_type[t].success_rate.num * Cardinality(OfType(rs, t))
                        = Cardinality(OfType(rs, t) \cap Above(rs))
                          * by_type[t].success_rate.den
            /\ invoked.after = invoked.args

C19_Witness ==
    /\ Invoked("get_query_statistics")
    /\ Len(invoked.args.results) = 3
    /\ invoked.args.results[1].confidence = 50
    /\ invoked.args.results[2].confidence = 90
    /\ invoked.args.results[3].confidence = 90
    /\ invoked.args.results[1].query_type = "shareholder"
    /\ invoked.args.results[2].query_type = "relationship"
    /\ invoked.args.results[3].query_type = "shareholder"
    /\ ~returned.raised
    /\ returned.value.success_rate = Frac(2, 3)
    /\ returned.value.query_type_statistics["shareholder"].success_rate = Frac(1, 2)

(***************************************************************************)
(* Properties of create_indexes                                            *)
(***************************************************************************)
CreateIndexesAgain ==
    /\ "again" \in DOMAIN invoked
    /\ invoked.again

\* C20: a create_indexes that follows a completed create_indexes of the same
\* manager leaves the set of indexes as it found it and raises no
\* duplicate-index error (it can only fail on the store being down).
C20_CreateIndexesIdempotent ==
    CreateIndexesAgain =>
        /\ indexes = invoked.before
        /\ returned.raised => returned.exc = "ServiceUnavailable"

C20_Witness ==
    /\ CreateIndexesAgain
    /\ invoked.fn = "Neo4jManager.create_indexes"
    /\ ~returned.raised
    /\ Index("company_name", "Company", "code") \in indexes
    /\ Cardinality(indexes) = 4

(***************************************************************************)
(* Properties of the completion client and of the confidences              *)
(***************************************************************************)
FallbackKeys == { "error", "answer", "confidence", "explanation" }

\* the text is a JSON object
ParsesAsObject(text) ==
    /\ ~json_loads(text).raised
    /\ json_loads(text).value.t = "dict"

\* C21 as claimed: whatever the completion service does, the text _call_llm
\* returns parses as a structured object.
C21_AlwaysParseable ==
    \A i \in 1..Len(llm_calls) : ParsesAsObject(call_llm(llm_calls[i].outcome))

\* C21 amended: when the completion call fails (transport or service error, a
\* choice without content) _call_llm returns the JSON fallback, an object with
\* error, answer, confidence 0.0 and explanation, and the stage reads it as it
\* reads a success payload: stage 1 takes it as the intent, stage 4 takes its
\* answer and confidence.  Text the service did deliver is handed on as it is.
C21_FallbackOnError ==
    \A i \in 1..Len(llm_calls) :
       LET outcome == llm_calls[i].outcome
           text == call_llm(outcome)
       IN  /\ outcome.kind = "content" => text = outcome.text
           /\ outcome.kind # "content" =>
                 /\ ParsesAsObject(text)
                 /\ DOMAIN text.val.d = FallbackKeys
                 /\ text.val.d.confidence = Num(0)
                 /\ llm_calls[i].stage = 1 =>
                       /\ reasoning_steps[1].result = text.val.d
                       /\ reasoning_steps[1].confidence = Frac(80, 100)
                 /\ llm_calls[i].stage = 4 =>
                       /\ final_answer.answer = text.val.d.answer
                       /\ final_answer.confidence = 0

C21_Witness ==
    /\ Done
    /\ Stage1Outcome.kind = "no_content"
    /\ Stage4Outcome.kind = "error"
    /\ result.answer = "the system cannot handle this query for now"
    /\ result.confidence = 0

\* C22 as claimed: the confidence of every QueryResult lies in [0, 1], whatever
\* the completion service stated in stage 4.
C22_ConfidenceInUnitRange ==
    Done => (result.confidence >= 0 /\ result.confidence <= 100)

\* C25 as claimed: step 2 reports confidence 0.9 when it holds a path and 0.1
\* when it holds none, for every query type and every outcome of the store.
C25_StepTwoConfidence ==
    Len(reasoning_steps) >= 2 =>
        reasoning_steps[2].confidence =
            IF reasoning_steps[2].result.paths # <<>> THEN Frac(90, 100)
            ELSE Frac(10, 100)

(***************************************************************************)
(* Properties of the integration stage                                     *)
(***************************************************************************)
PathsOfStage2 == reasoning_steps[2].result.paths

\* a step changes the calls issued to the store only from stage 2
StoreCalledInStage2Only ==
    graph_calls' # graph_calls => pc = "execute_graph_query"

NoPathsNoReasoning ==
    /\ \A i \in 1..Len(graph_calls) : graph_calls[i].stage = 2
    /\ Len(graph_calls) <= 1
    /\ (Len(reasoning_steps) >= 3 /\ PathsOfStage2 = <<>>) =>
          /\ reasoning_steps[3].step_id = 3
          /\ reasoning_steps[3].confidence = Frac(0, 100)
          /\ reasoning_steps[3].description = "no relevant path found, cannot reason"

\* C26: after a stage 2 without paths the integration step has confidence
\* 0.0 and the 'no relevant path' description and the store is not asked
\* again; in every run the store is called during stage 2 only.
C26_NoPathsNoStoreCall == []NoPathsNoReasoning /\ [][StoreCalledInStage2Only]_vars

C26_Witness ==
    /\ Done
    /\ graph_calls # <<>>
    /\ ~graph_calls[1].raised
    /\ PathsOfStage2 = <<>>
    /\ reasoning_steps[3].confidence = Frac(0, 100)
    /\ Len(graph_calls) = 1

RECURSIVE TotalConfidence(_, _)
TotalConfidence(paths, n) ==
    IF n = 0 THEN 0 ELSE paths[n].confidence + TotalConfidence(paths, n - 1)

\* C27: after a stage 2 with paths the integration step's confidence is the
\* mean of the path confidences, total_paths is their number, the
\* high-confidence paths are those above 0.7 in their order, and the entity
\* names and relation types of the paths are each listed once.
C27_IntegrationSummary ==
    (Len(reasoning_steps) >= 3 /\ PathsOfStage2 # <<>>) =>
        LET paths == PathsOfStage2
            step == reasoning_steps[3]
            info == step.result.integrated_info
            high == info.high_confidence_paths
            above == { i \in 1..Len(paths) : paths[i].confidence > 70 }
        IN  /\ step.confidence.den > 0
            /\ step.confidence.num * 100 * Len(paths)
                  = TotalConfidence(paths, Len(paths)) * step.confidence.den
            /\ info.total_paths = Len(paths)
            /\ Len(high) = Cardinality(above)
            /\ \A k \in 1..Len(high) : high[k].confidence > 70 /\ high[k] \in Range(paths)
            /\ Range(info.entities_involved) = EntitiesInvolved(paths)
            /\ Len(info.entities_involved) = Cardinality(EntitiesInvolved(paths))
            /\ Range(info.relationship_types) = RelationshipTypes(paths)
            /\ Len(info.relationship_types) = Cardinality(RelationshipTypes(paths))
            /\ step.result.paths = paths

C27_Witness ==
    /\ Done
    /\ Len(PathsOfStage2) = 3
    /\ Cardinality({ i \in 1..3 : PathsOfStage2[i].confidence > 70 }) = 2
    /\ Len(reasoning_steps[3].result.integrated_info.high_confidence_paths) = 2
    /\ Len(reasoning_steps[3].result.integrated_info.entities_involved) >= 3

(***************************************************************************)
(* Properties of get_entity_neighbors and of the reasoning text            *)
(***************************************************************************)
\* C28 as claimed: get_entity_neighbors(entity_name, max_depth) returns at most
\* 20 neighbours, no name twice, each at a distance of at most max_depth,
\* ordered by distance and then by name.
C28_NeighborsWithinDepth ==
    (Invoked("get_entity_neighbors") /\ ~returned.raised) =>
        LET neighbors == returned.value.neighbors
        IN  /\ Len(neighbors) <= 20
            /\ \A i \in 1..Len(neighbors) :
                  /\ neighbors[i].distance >= 1
                  /\ neighbors[i].distance <= invoked.args.max_depth
            /\ \A i \in 1..Len(neighbors), j \in 1..Len(neighbors) :
                  i < j =>
                     /\ neighbors[i].name # neighbors[j].name
                     /\ \/ neighbors[i].distance < neighbors[j].distance
                        \/ /\ neighbors[i].distance = neighbors[j].distance
                           /\ NameRank(neighbors[i].name) < NameRank(neighbors[j].name)

\* C29 as claimed: _generate_reasoning returns the empty string for no input.
C29_ReasoningNeverEmpty ==
    Invoked("_generate_reasoning") => (~returned.raised /\ returned.value # "")

(***************************************************************************)
(* Termination of process_query.  The stages 1, 2 and 4 block in a call of *)
(* a collaborator (chat.completions.create, session.run) that is given no  *)
(* timeout: such a stage completes when the collaborator answers, which    *)
(* nothing in the program enforces.  Stage 3 and the construction of the   *)
(* result compute on local data; the event loop runs them to their end.    *)
(***************************************************************************)
LiveRequests ==
    { QueryRequest("who holds it", query_type, "A", 2) :
        query_type \in {"shareholder", "relationship"} }

InitLive ==
    /\ graph = GraphChain
    /\ ProcessIdle
    /\ BatchIdle
    /\ invoked = None
    /\ returned = None
    /\ indexes = {}
    /\ TasksIdle /\ FaqIdle

\* process_query is entered with a request
ProcessQueryLive ==
    /\ pc = "idle"
    /\ \E req \in LiveRequests : request' = req
    /\ pc' = "identify_intent"
    /\ UNCHANGED <<graph, reasoning_steps, final_answer, result, llm_calls,
                   graph_calls, stage_log>>
    /\ UNCHANGED <<batch_vars, call_vars, task_vars, faq_vars>>

NextLive ==
    \/ ProcessQueryLive
    \/ IdentifyIntent
    \/ ExecuteGraphQuery
    \/ IntegrateAndReason
    \/ GenerateFinalAnswer
    \/ ReturnResult

\* Stages 1 and 4 go on once the completion call returns or raises, which
\* the OpenAI client's own default request timeout ensures; stage 3 and the
\* construction of the result call nothing.  Stage 2 waits for session.run,
\* which is given no timeout, so nothing obliges it to go on.
SpecLive ==
    /\ InitLive
    /\ [][NextLive]_vars
    /\ WF_vars(IdentifyIntent)
    /\ WF_vars(IntegrateAndReason)
    /\ WF_vars(GenerateFinalAnswer)
    /\ WF_vars(ReturnResult)

\* C24 as claimed: every process_query that was entered returns.
C24_EveryRunReturns == (pc # "idle") ~> Done

(***************************************************************************)
(* Concurrent invocations of process_query on one coordinator              *)
(*                                                                         *)
(* Every invocation is a coroutine with the locals start_time,             *)
(* reasoning_steps, step1..step3, final_answer and result; the coordinator *)
(* object holds the three clients only.  An invocation may be suspended    *)
(* at each await, so the steps of different invocations interleave freely. *)
(***************************************************************************)
\* another invocation is suspended inside process_query while t moves
Overlaps(t) ==
    \E u \in Tasks \ {t} : tasks[u].pc \notin {"idle", "done"}

\* variant: the list of steps is an attribute of the coordinator, so an
\* append by one invocation lands in the list every invocation reads
RecordStep_Shared(ts, t, step) ==
    [u \in DOMAIN ts |-> [ts[u] EXCEPT !.reasoning_steps = Append(@, step)]]

\* reasoning_steps.append(step) on the list local to invocation t
RecordStep(ts, t, step) ==
    [ts EXCEPT ![t].reasoning_steps = Append(@, step)]

\* list(set(...)) of stage 3 for the concurrent invocations: one of the
\* orders the interpreter may produce
TaskLists(S) == { CHOOSE l \in Lists(S) : TRUE }

InitTasks ==
    /\ graph = GraphChain
    /\ ProcessIdle
    /\ BatchIdle
    /\ invoked = None /\ returned = None /\ indexes = {}
    /\ TasksIdle /\ FaqIdle

\* an invocation enters process_query: reasoning_steps = []
TaskProcessQuery ==
    /\ \E t \in Tasks, req \in BatchRequests :
          /\ tasks[t].pc = "idle"
          /\ tasks' = [tasks EXCEPT ![t].request = req,
                                    ![t].pc = "identify_intent",
                                    ![t].overlapped = @ \/ Overlaps(t)]
    /\ UNCHANGED <<process_vars, batch_vars, call_vars, faq_vars>>

\* step1 = await self._identify_query_intent(request)
TaskIdentifyIntent ==
    /\ \E t \in Tasks, outcome \in BatchIntentOutcomes :
          /\ tasks[t].pc = "identify_intent"
          /\ tasks' =
                [RecordStep(tasks, t,
                            identify_query_intent(tasks[t].request, outcome))
                    EXCEPT ![t].pc = "execute_graph_query",
                           ![t].heard.outcome1 = outcome,
                           ![t].overlapped = @ \/ Overlaps(t)]
    /\ UNCHANGED <<process_vars, batch_vars, call_vars, faq_vars>>

\* step2 = await self._execute_graph_query(request)
TaskExecuteGraphQuery ==
    /\ \E t \in Tasks, o \in BatchOutages :
          /\ tasks[t].pc = "execute_graph_query"
          /\ \E rows \in StoreRows(graph, Dispatch(tasks[t].request)) :
                tasks' =
                   [RecordStep(tasks, t,
                               execute_graph_query(graph, tasks[t].request, rows, o))
                       EXCEPT ![t].pc = "integrate_and_reason",
                              ![t].heard.rows = rows,
                              ![t].heard.o = o,
                              ![t].overlapped = @ \/ Overlaps(t)]
    /\ UNCHANGED <<process_vars, batch_vars, call_vars, faq_vars>>

\* step3 = await self._integrate_and_reason(request, step2.result)
TaskIntegrateAndReason ==
    /\ \E t \in Tasks :
          /\ tasks[t].pc = "integrate_and_reason"
          /\ LET step2 == tasks[t].reasoning_steps[2]
                 paths == DictGet(step2.result, "paths", <<>>)
             IN  \E entities \in TaskLists(EntitiesInvolved(paths)),
                    types \in TaskLists(RelationshipTypes(paths)) :
                    tasks' =
                       [RecordStep(tasks, t,
                                   integrate_and_reason(tasks[t].request, step2.result,
                                                        entities, types))
                           EXCEPT ![t].pc = "generate_final_answer",
                                  ![t].heard.entities = entities,
                                  ![t].heard.types = types,
                                  ![t].overlapped = @ \/ Overlaps(t)]
    /\ UNCHANGED <<process_vars, batch_vars, call_vars, faq_vars>>

\* final_answer = await self._generate_final_answer(request, reasoning_steps)
TaskGenerateFinalAnswer ==
    /\ \E t \in Tasks, outcome \in BatchLlmOutcomes :
          /\ tasks[t].pc = "generate_final_answer"
          /\ tasks' =
                [tasks EXCEPT ![t].final_answer =
                                  generate_final_answer(tasks[t].request,
                                                        tasks[t].reasoning_steps,
                                                        outcome),
                              ![t].pc = "build_result",
                              ![t].heard.outcome4 = outcome,
                              ![t].overlapped = @ \/ Overlaps(t)]
    /\ UNCHANGED <<process_vars, batch_vars, call_vars, faq_vars>>

\* result = QueryResult(...); return result, or the except branch
TaskReturnResult ==
    /\ \E t \in Tasks, elapsed \in BatchSeconds :
          /\ tasks[t].pc = "build_result"
          /\ tasks' =
                [tasks EXCEPT ![t].result =
                                  IF { "answer", "confidence" }
                                        \subseteq DOMAIN tasks[t].final_answer
                                  THEN BuildResult(tasks[t].request,
                                                   tasks[t].reasoning_steps,
                                                   tasks[t].final_answer, elapsed)
                                  ELSE ProcessQueryFailed(tasks[t].request,
                                                          "KeyError", elapsed),
                              ![t].pc = "done",
                              ![t].heard.elapsed = elapsed]
    /\ UNCHANGED <<process_vars, batch_vars, call_vars, faq_vars>>

NextTasks ==
    \/ TaskProcessQuery
    \/ TaskIdentifyIntent
    \/ TaskExecuteGraphQuery
    \/ TaskIntegrateAndReason
    \/ TaskGenerateFinalAnswer
    \/ TaskReturnResult

SpecTasks == InitTasks /\ [][NextTasks]_vars

\* what the request of invocation t yields when it runs alone and the
\* collaborators answer what they answered to t
AloneResult(t) ==
    LET h == tasks[t].heard
    IN  process_query(graph, tasks[t].request, h.outcome1, h.rows, h.o,
                      h.entities, h.types, h.outcome4, h.elapsed)

\* C23: whatever the interleaving of concurrent process_query invocations,
\* each one works on its own list of steps, and the result it returns
\* (steps, paths, metadata, answer) is the one its own request yields when
\* run alone against the same collaborator responses.
C23_InvocationsIsolated ==
    \A t \in Tasks :
       /\ Len(tasks[t].reasoning_steps) <= 3
       /\ tasks[t].pc = "done" =>
             /\ Len(tasks[t].reasoning_steps) = 3
             /\ tasks[t].result = AloneResult(t)

\* two invocations with different requests ran interleaved and both returned
C23_Witness ==
    \E t \in Tasks, u \in Tasks :
       /\ t # u
       /\ tasks[t].pc = "done" /\ tasks[u].pc = "done"
       /\ tasks[t].overlapped /\ tasks[u].overlapped
       /\ tasks[t].request # tasks[u].request
       /\ tasks[t].result.paths # tasks[u].result.paths

(***************************************************************************)
(* The FAQ service: hot update of the index                                *)
(*                                                                         *)
(* A thread is either a file-change handler (_handle_file_change, started  *)
(* by the watcher's callback) or a call of _update_index (rebuild_index of *)
(* the service, or the initial load), whose two halves run on threads of   *)
(* the default executor.  pc is the statement the thread is about to run:  *)
(*   acquire     with self._indexing_lock                                  *)
(*   load        indexer.update_index: load_faq_data                       *)
(*   delete      indexer.rebuild_index: milvus_client.delete_collection    *)
(*   create      indexer.rebuild_index: self.initialize                    *)
(*   insert      indexer.rebuild_index: self.build_index                   *)
(*   updated     indexer.update_index has returned success                 *)
(*   initialize  retriever.initialize is running                           *)
(***************************************************************************)
Updating == {"load", "delete", "create", "insert"}

InitFaq ==
    /\ graph = GraphSample
    /\ ProcessIdle
    /\ BatchIdle
    /\ invoked = None /\ returned = None /\ indexes = {}
    /\ TasksIdle /\ FaqIdle

\* indexer.update_index returns ok in thread t.  In _update_index the return
\* leaves the with block of update_sync, which releases the lock; in
\* _handle_file_change the with block goes on.
UpdateIndexReturns(t, ok) ==
    /\ threads' = [threads EXCEPT ![t].pc = "updated", ![t].success = ok]
    /\ indexing_lock' = IF threads[t].kind = "update" THEN 0 ELSE indexing_lock

\* on_file_change: threading.Thread(target=self._handle_file_change).start()
StartHandleFileChange ==
    /\ \E t \in FaqThreads :
          /\ threads[t].pc = "idle"
          /\ threads' = [threads EXCEPT ![t].kind = "handler", ![t].pc = "acquire"]
    /\ UNCHANGED <<indexing_lock, collection>>
    /\ UNCHANGED <<process_vars, batch_vars, call_vars, task_vars>>

\* _update_index: await loop.run_in_executor(None, update_sync)
StartUpdateIndex ==
    /\ \E t \in FaqThreads :
          /\ threads[t].pc = "idle"
          /\ threads' = [threads EXCEPT ![t].kind = "update", ![t].pc = "acquire"]
    /\ UNCHANGED <<indexing_lock, collection>>
    /\ UNCHANGED <<process_vars, batch_vars, call_vars, task_vars>>

\* with self._indexing_lock: blocks until the lock is free
AcquireIndexingLock ==
    /\ \E t \in FaqThreads :
          /\ threads[t].pc = "acquire"
          /\ indexing_lock = 0
          /\ indexing_lock' = t
          /\ threads' = [threads EXCEPT ![t].pc = "load"]
    /\ UNCHANGED collection
    /\ UNCHANGED <<process_vars, batch_vars, call_vars, task_vars>>

\* update_index: faq_data = self.load_faq_data(file_path); without data it
\* returns True, otherwise it goes on to rebuild_index
LoadFaqData ==
    /\ \E t \in FaqThreads, has_data \in BOOLEAN :
          /\ threads[t].pc = "load"
          /\ IF has_data
             THEN /\ threads' = [threads EXCEPT ![t].pc = "delete"]
                  /\ UNCHANGED indexing_lock
             ELSE UpdateIndexReturns(t, TRUE)
    /\ UNCHANGED collection
    /\ UNCHANGED <<process_vars, batch_vars, call_vars, task_vars>>

\* rebuild_index: self.milvus_client.delete_collection(), whose result is
\* not looked at
DeleteCollection ==
    /\ \E t \in FaqThreads, dropped \in BOOLEAN :
          /\ threads[t].pc = "delete"
          /\ collection' = IF dropped THEN FALSE ELSE collection
          /\ threads' = [threads EXCEPT ![t].pc = "create"]
    /\ UNCHANGED indexing_lock
    /\ UNCHANGED <<process_vars, batch_vars, call_vars, task_vars>>

\* rebuild_index: if not self.initialize(): return False
IndexerInitialize ==
    /\ \E t \in FaqThreads, created \in BOOLEAN :
          /\ threads[t].pc = "create"
          /\ IF created
             THEN /\ collection' = TRUE
                  /\ threads' = [threads EXCEPT ![t].pc = "insert"]
                  /\ UNCHANGED indexing_lock
             ELSE /\ UpdateIndexReturns(t, FALSE)
                  /\ UNCHANGED collection
    /\ UNCHANGED <<process_vars, batch_vars, call_vars, task_vars>>

\* rebuild_index: return self.build_index(faq_data)
BuildIndex ==
    /\ \E t \in FaqThreads, inserted \in BOOLEAN :
          /\ threads[t].pc = "insert"
          /\ UpdateIndexReturns(t, inserted)
    /\ UNCHANGED collection
    /\ UNCHANGED <<process_vars, batch_vars, call_vars, task_vars>>

\* after update_index: if success, retriever.initialize is entered, by the
\* handler inside its with block, by _update_index through the executor;
\* without success the handler logs, leaves the with block and ends
AfterUpdateIndex ==
    /\ \E t \in FaqThreads :
          /\ threads[t].pc = "updated"
          /\ IF threads[t].success
             THEN /\ threads' = [threads EXCEPT ![t].pc = "initialize"]
                  /\ UNCHANGED indexing_lock
             ELSE /\ threads' = [threads EXCEPT ![t].pc = "finished"]
                  /\ indexing_lock' = IF indexing_lock = t THEN 0 ELSE indexing_lock
    /\ UNCHANGED collection
    /\ UNCHANGED <<process_vars, batch_vars, call_vars, task_vars>>

\* retriever.initialize returns; the handler then leaves its with block.
\* success records what it returned: False when the collection is missing.
RetrieverInitialize ==
    /\ \E t \in FaqThreads :
          /\ threads[t].pc = "initialize"
          /\ threads' = [threads EXCEPT ![t].pc = "finished",
                                        ![t].success = collection]
          /\ indexing_lock' = IF indexing_lock = t THEN 0 ELSE indexing_lock
    /\ UNCHANGED collection
    /\ UNCHANGED <<process_vars, batch_vars, call_vars, task_vars>>

NextFaq ==
    \/ StartHandleFileChange
    \/ StartUpdateIndex
    \/ AcquireIndexingLock
    \/ LoadFaqData
    \/ DeleteCollection
    \/ IndexerInitialize
    \/ BuildIndex
    \/ AfterUpdateIndex
    \/ RetrieverInitialize

SpecFaq == InitFaq /\ [][NextFaq]_vars

\* C30 as claimed: whatever the interleaving of file-change handlers and
\* _update_index calls, retriever.initialize runs only while no thread is
\* executing indexer.update_index.
C30_InitializeOutsideUpdate ==
    \A t \in FaqThreads, u \in FaqThreads :
       threads[t].pc = "initialize" => threads[u].pc \notin Updating

====
